---------------------------- MODULE Spec2Model ----------------------------
(***************************************************************************)
(* A model of src/worker.js, the athu Gemini API proxy: a fetch handler    *)
(* that answers CORS preflights, rate-limits POST /api/query per client,   *)
(* validates the body, calls the upstream generation API once and returns  *)
(* the parsed JSON text of its first candidate.                            *)
(*                                                                         *)
(* JavaScript runs one handler invocation at a time and switches only at   *)
(* an await, so each action below is the code between two awaits.          *)
(* Strings the code inspects (the query, the candidate text, the error     *)
(* messages) are sequences of one-character strings; strings it only       *)
(* compares (method, path, header values) are TLA+ strings.                *)
(***************************************************************************)
EXTENDS Integers, Sequences, FiniteSets, TLC

VARIABLES
  now,            \* the value Date.now() returns
  rateLimitMap,   \* the module-level Map: client key -> {count, start}
  pc,             \* per invocation: the await it is suspended at, or how it ended
  request,        \* per invocation: the inbound Request
  origin,         \* per invocation: the local const origin
  query,          \* per invocation: the local let query
  geminiRes,      \* per invocation: the local const geminiRes
  response,       \* per invocation: the Response the handler returned
  upstream,       \* per invocation: the bodies of the outbound fetch calls issued
  call,           \* per invocation: its call of isRateLimited (line 100) and
                  \* what the call read, stored and returned
  ticks,          \* how many times the clock has advanced (bounds the model)
  log             \* the calls of isRateLimited so far, where a specification
                  \* keeps them: how many calls were made with each client
                  \* key, at each time, with each result

vars == <<now, rateLimitMap, pc, request, origin, query, geminiRes, response,
          upstream, call, ticks, log>>

-----------------------------------------------------------------------------
(* Bounds of the model *)

\* Largest count a client record is driven to (max + 2: two denied calls).
MaxCount == 22
\* How many times the clock advances in a behaviour.
MaxTicks == 2
\* Length of the over-long query strings offered to the validator.
LongLen == 600
\* How many handler invocations are in flight together.
NumInvocations == 2

-----------------------------------------------------------------------------
(* Program constants *)

win == 60000
max == 20
QUERY_CAP == 500

ALLOWED_ORIGINS == <<"https://athumoz.github.io">>

\* Whitespace as String.prototype.trim and the regex class \s see it.
WhiteSpace == {" ", "\n", "\t", "\r"}

MsgNotFound ==
  <<"N", "o", "t", " ", "f", "o", "u", "n", "d">>
MsgRateLimited ==
  <<"D", "e", "m", "a", "s", "i", "a", "d", "o", "s", " ", "p", "e", "d",
    "i", "d", "o", "s", ".", " ", "T", "e", "n", "t", "e", " ", "n", "o",
    "v", "a", "m", "e", "n", "t", "e", " ", "e", "m", " ", "1", " ", "m",
    "i", "n", "u", "t", "o", ".">>
MsgInvalid ==
  <<"P", "e", "r", "g", "u", "n", "t", "a", " ", "i", "n", "v", "á", "l",
    "i", "d", "a", " ", "o", "u", " ", "a", "u", "s", "e", "n", "t", "e",
    ".">>
MsgUpstream ==
  <<"E", "r", "r", "o", " ", "a", "o", " ", "p", "r", "o", "c", "e", "s",
    "s", "a", "r", " ", "a", " ", "p", "e", "r", "g", "u", "n", "t", "a",
    ".", " ", "T", "e", "n", "t", "e", " ", "n", "o", "v", "a", "m", "e",
    "n", "t", "e", ".">>
MsgUnexpected ==
  <<"R", "e", "s", "p", "o", "s", "t", "a", " ", "i", "n", "e", "s", "p",
    "e", "r", "a", "d", "a", " ", "d", "o", " ", "s", "e", "r", "v", "i",
    "d", "o", "r", ".">>
MsgUnparseable ==
  <<"N", "ã", "o", " ", "f", "o", "i", " ", "p", "o", "s", "s", "í", "v",
    "e", "l", " ", "i", "n", "t", "e", "r", "p", "r", "e", "t", "a", "r",
    " ", "a", " ", "r", "e", "s", "p", "o", "s", "t", "a", ".", " ", "T",
    "e", "n", "t", "e", " ", "n", "o", "v", "a", "m", "e", "n", "t", "e",
    ".">>

-----------------------------------------------------------------------------
(* JavaScript values: what JSON.parse and Response.json() produce, plus     *)
(* undefined.  Each kind has its own field for its content.  An object is   *)
(* the sequence of its own properties [k, v] in insertion order.            *)

Undefined == [t |-> "undefined"]
JNull     == [t |-> "null"]
JBool(b)  == [t |-> "boolean", b |-> b]
JNum(n)   == [t |-> "number", n |-> n]
JStr(s)   == [t |-> "string", s |-> s]
JArr(e)   == [t |-> "array", e |-> e]
JObj(f)   == [t |-> "object", f |-> f]

\* ToBoolean, as the || of lines 57, 85, 99 and 108 applies it.
Truthy(v) ==
  CASE v.t = "undefined" -> FALSE
    [] v.t = "null"      -> FALSE
    [] v.t = "boolean"   -> v.b
    [] v.t = "number"    -> v.n # 0
    [] v.t = "string"    -> v.s # <<>>
    [] OTHER             -> TRUE

\* Reading a property of undefined or null throws a TypeError.
Nullish(v) == v.t \in {"undefined", "null"}

\* v.name for a value that is not nullish: an own property of an object,
\* undefined for a missing one and for the primitives and arrays used here.
Prop(v, name) ==
  IF v.t = "object" /\ \E j \in 1..Len(v.f) : v.f[j].k = name
  THEN v.f[CHOOSE j \in 1..Len(v.f) : v.f[j].k = name].v
  ELSE Undefined

\* v[0] for a value that is not nullish.
First(v) ==
  CASE v.t = "array"  -> IF Len(v.e) > 0 THEN v.e[1] ELSE Undefined
    [] v.t = "string" -> IF Len(v.s) > 0 THEN JStr(<<v.s[1]>>) ELSE Undefined
    [] v.t = "object" -> Prop(v, <<"0">>)
    [] OTHER          -> Undefined

-----------------------------------------------------------------------------
(* String.prototype.trim and slice(0, n) *)

RECURSIVE TrimStart(_)
TrimStart(s) ==
  IF s = <<>> \/ Head(s) \notin WhiteSpace THEN s ELSE TrimStart(Tail(s))

RECURSIVE TrimEnd(_)
TrimEnd(s) ==
  IF s = <<>> \/ s[Len(s)] \notin WhiteSpace
  THEN s
  ELSE TrimEnd(SubSeq(s, 1, Len(s) - 1))

Trim(s) == TrimEnd(TrimStart(s))

Slice0(s, n) == IF Len(s) <= n THEN s ELSE SubSeq(s, 1, n)

-----------------------------------------------------------------------------
(* JSON.parse and Response/Request.json(): a recursive-descent parser over  *)
(* the JSON grammar restricted to integers and to the string escapes        *)
(* \" \\ \/ \n \r \t.  A result is [ok, v, i]: the value and the index      *)
(* after it; [ok |-> FALSE] is the SyntaxError.                             *)

Digits == <<"0", "1", "2", "3", "4", "5", "6", "7", "8", "9">>
IsDigit(c) == \E d \in 1..10 : Digits[d] = c
DigitVal(c) == (CHOOSE d \in 1..10 : Digits[d] = c) - 1

Failed == [ok |-> FALSE]

RECURSIVE SkipWs(_, _)
SkipWs(s, i) ==
  IF i <= Len(s) /\ s[i] \in WhiteSpace THEN SkipWs(s, i + 1) ELSE i

\* s has the characters of lit at index i.
Matches(s, i, lit) ==
  /\ i + Len(lit) - 1 <= Len(s)
  /\ \A j \in 1..Len(lit) : s[i + j - 1] = lit[j]

\* The character an escape sequence \c stands for.
Unescape(c) ==
  CASE c = "n" -> "\n"
    [] c = "t" -> "\t"
    [] c = "r" -> "\r"
    [] OTHER   -> c

\* The characters a string literal cannot hold unescaped, and its end.
Special == {"\"", "\\", "\n", "\t", "\r"}

\* The least index in lo..hi of a character in Special, hi + 1 if none.
RECURSIVE NextSpecial(_, _, _)
NextSpecial(s, lo, hi) ==
  IF lo > hi THEN hi + 1
  ELSE IF lo = hi THEN (IF s[lo] \in Special THEN lo ELSE hi + 1)
  ELSE LET mid == (lo + hi) \div 2
           l   == NextSpecial(s, lo, mid)
       IN  IF l <= mid THEN l ELSE NextSpecial(s, mid + 1, hi)

\* The characters of a string literal from index i (after the opening quote).
RECURSIVE ParseChars(_, _, _)
ParseChars(s, i, acc) ==
  LET j   == NextSpecial(s, i, Len(s))
      run == acc \o SubSeq(s, i, j - 1)
  IN  IF j > Len(s) THEN Failed
      ELSE IF s[j] = "\"" THEN [ok |-> TRUE, v |-> JStr(run), i |-> j + 1]
      ELSE IF s[j] = "\\" THEN
        IF j + 1 <= Len(s) /\ s[j + 1] \in {"\"", "\\", "/", "n", "t", "r"}
        THEN ParseChars(s, j + 2, Append(run, Unescape(s[j + 1])))
        ELSE Failed
      ELSE Failed

\* The digits of a number from index i.
RECURSIVE ParseDigits(_, _, _)
ParseDigits(s, i, acc) ==
  IF i <= Len(s) /\ IsDigit(s[i])
  THEN ParseDigits(s, i + 1, 10 * acc + DigitVal(s[i]))
  ELSE [ok |-> TRUE, v |-> JNum(acc), i |-> i]

\* -? (0 | [1-9][0-9]*)
ParseNumber(s, i) ==
  LET neg == s[i] = "-"
      j   == IF neg THEN i + 1 ELSE i
  IN  IF j > Len(s) \/ ~IsDigit(s[j]) THEN Failed
      ELSE IF s[j] = "0" THEN [ok |-> TRUE, v |-> JNum(0), i |-> j + 1]
      ELSE LET r == ParseDigits(s, j, 0)
           IN  [r EXCEPT !.v = JNum(IF neg THEN 0 - r.v.n ELSE r.v.n)]

\* A property set while parsing an object: a repeated key keeps its place
\* and takes the later value.
SetProp(f, k, v) ==
  IF \E j \in 1..Len(f) : f[j].k = k
  THEN [j \in 1..Len(f) |-> IF f[j].k = k THEN [k |-> k, v |-> v] ELSE f[j]]
  ELSE Append(f, [k |-> k, v |-> v])

RECURSIVE ParseValue(_, _), ParseElements(_, _, _), ParseMembers(_, _, _)

ParseValue(s, i0) ==
  LET i == SkipWs(s, i0)
  IN  IF i > Len(s) THEN Failed
      ELSE IF s[i] = "{" THEN
        LET j == SkipWs(s, i + 1)
        IN  IF j <= Len(s) /\ s[j] = "}"
            THEN [ok |-> TRUE, v |-> JObj(<<>>), i |-> j + 1]
            ELSE ParseMembers(s, j, <<>>)
      ELSE IF s[i] = "[" THEN
        LET j == SkipWs(s, i + 1)
        IN  IF j <= Len(s) /\ s[j] = "]"
            THEN [ok |-> TRUE, v |-> JArr(<<>>), i |-> j + 1]
            ELSE ParseElements(s, j, <<>>)
      ELSE IF s[i] = "\"" THEN ParseChars(s, i + 1, <<>>)
      ELSE IF Matches(s, i, <<"n", "u", "l", "l">>)
        THEN [ok |-> TRUE, v |-> JNull, i |-> i + 4]
      ELSE IF Matches(s, i, <<"t", "r", "u", "e">>)
        THEN [ok |-> TRUE, v |-> JBool(TRUE), i |-> i + 4]
      ELSE IF Matches(s, i, <<"f", "a", "l", "s", "e">>)
        THEN [ok |-> TRUE, v |-> JBool(FALSE), i |-> i + 5]
      ELSE IF s[i] = "-" \/ IsDigit(s[i]) THEN ParseNumber(s, i)
      ELSE Failed

\* value (, value)* ] from index i.
ParseElements(s, i, acc) ==
  LET r == ParseValue(s, i)
  IN  IF ~r.ok THEN Failed
      ELSE LET j == SkipWs(s, r.i)
           IN  IF j > Len(s) THEN Failed
               ELSE IF s[j] = "," THEN ParseElements(s, j + 1, Append(acc, r.v))
               ELSE IF s[j] = "]"
                 THEN [ok |-> TRUE, v |-> JArr(Append(acc, r.v)), i |-> j + 1]
               ELSE Failed

\* "key" : value (, "key" : value)* } from index i.
ParseMembers(s, i0, acc) ==
  LET i == SkipWs(s, i0)
  IN  IF i > Len(s) \/ s[i] # "\"" THEN Failed
      ELSE LET key == ParseChars(s, i + 1, <<>>)
           IN  IF ~key.ok THEN Failed
               ELSE LET c == SkipWs(s, key.i)
                    IN  IF c > Len(s) \/ s[c] # ":" THEN Failed
                        ELSE LET r == ParseValue(s, c + 1)
                             IN  IF ~r.ok THEN Failed
                                 ELSE LET j == SkipWs(s, r.i)
                                          f == SetProp(acc, key.v.s, r.v)
                                      IN  IF j > Len(s) THEN Failed
                                          ELSE IF s[j] = ","
                                            THEN ParseMembers(s, j + 1, f)
                                          ELSE IF s[j] = "}"
                                            THEN [ok |-> TRUE, v |-> JObj(f),
                                                  i |-> j + 1]
                                          ELSE Failed

\* JSON.parse(text): one value with nothing but whitespace around it.
ParseJSON(text) ==
  LET r == ParseValue(text, 1)
  IN  IF r.ok /\ SkipWs(text, r.i) > Len(text)
      THEN [ok |-> TRUE, v |-> r.v]
      ELSE Failed

-----------------------------------------------------------------------------
(* JSON.stringify of a value JSON.parse can produce *)

RECURSIVE NatDigits(_)
NatDigits(n) ==
  IF n < 10 THEN <<Digits[n + 1]>>
  ELSE NatDigits(n \div 10) \o <<Digits[(n % 10) + 1]>>

EscapeChar(c) ==
  CASE c = "\"" -> <<"\\", "\"">>
    [] c = "\\" -> <<"\\", "\\">>
    [] c = "\n" -> <<"\\", "n">>
    [] c = "\t" -> <<"\\", "t">>
    [] c = "\r" -> <<"\\", "r">>
    [] OTHER    -> <<c>>

\* The characters lo..hi of s, each escaped.
RECURSIVE EscapeRange(_, _, _)
EscapeRange(s, lo, hi) ==
  IF lo > hi THEN <<>>
  ELSE IF lo = hi THEN EscapeChar(s[lo])
  ELSE LET mid == (lo + hi) \div 2
       IN  EscapeRange(s, lo, mid) \o EscapeRange(s, mid + 1, hi)

Quote(s) == <<"\"">> \o EscapeRange(s, 1, Len(s)) \o <<"\"">>

\* The parts joined by commas.
RECURSIVE Join(_)
Join(ss) ==
  IF ss = <<>> THEN <<>>
  ELSE IF Len(ss) = 1 THEN ss[1]
  ELSE ss[1] \o <<",">> \o Join(Tail(ss))

RECURSIVE Stringify(_)
Stringify(v) ==
  CASE v.t = "null"    -> <<"n", "u", "l", "l">>
    [] v.t = "boolean" -> IF v.b THEN <<"t", "r", "u", "e">>
                          ELSE <<"f", "a", "l", "s", "e">>
    [] v.t = "number"  -> IF v.n < 0 THEN <<"-">> \o NatDigits(0 - v.n)
                          ELSE NatDigits(v.n)
    [] v.t = "string"  -> Quote(v.s)
    [] v.t = "array"   ->
         <<"[">> \o Join([j \in 1..Len(v.e) |-> Stringify(v.e[j])]) \o <<"]">>
    [] v.t = "object"  ->
         <<"{">>
         \o Join([j \in 1..Len(v.f) |->
                    Quote(v.f[j].k) \o <<":">> \o Stringify(v.f[j].v)])
         \o <<"}">>

-----------------------------------------------------------------------------
(* Rate limiter: isRateLimited, lines 51-62 *)

\* rateLimitMap.get(ip) || { count: 0, start: now }
EntryFor(ip) ==
  IF ip \in DOMAIN rateLimitMap THEN rateLimitMap[ip]
  ELSE [count |-> 0, start |-> now]

\* Seeded fault: the window is taken to end one millisecond early.
WindowElapsedEarly(entry) == now - entry.start >= win

\* now - entry.start > win
WindowElapsed(entry) == now - entry.start > win

\* Seeded fault: a call over the limit is not counted.
CountedAdmitted(entry) ==
  LET e == IF WindowElapsed(entry) THEN [count |-> 0, start |-> now]
           ELSE entry
  IN  IF e.count > max THEN e ELSE [e EXCEPT !.count = @ + 1]

\* Seeded fault: every call moves the start of the window to now.
CountedRefreshing(entry) ==
  LET e == IF WindowElapsed(entry) THEN [count |-> 0, start |-> now]
           ELSE entry
  IN  [count |-> e.count + 1, start |-> now]

\* The entry after lines 58-59: reset when the window has elapsed, then
\* counted.
Counted(entry) ==
  LET e == IF WindowElapsed(entry) THEN [count |-> 0, start |-> now]
           ELSE entry
  IN  [e EXCEPT !.count = @ + 1]

\* Seeded fault: one entry object is shared by all the keys.
MapSetShared(ip, entry) ==
  [k \in DOMAIN rateLimitMap \cup {ip} |-> entry]

\* rateLimitMap.set(ip, entry)
MapSet(ip, entry) ==
  [k \in DOMAIN rateLimitMap \cup {ip} |->
     IF k = ip THEN entry ELSE rateLimitMap[k]]

\* return entry.count > max
OverLimit(entry) == entry.count > max

\* No call of isRateLimited.
NoCall ==
  [made |-> FALSE, ip |-> "", at |-> 0, fresh |-> FALSE,
   before |-> [count |-> 0, start |-> 0], after |-> [count |-> 0, start |-> 0],
   limited |-> FALSE]

\* The call isRateLimited(ip) that stores entry: the time it read, whether
\* the map had no record of ip, the record it started from, the record it
\* stored and the value it returned.
Called(ip, entry) ==
  [made |-> TRUE, ip |-> ip, at |-> now, fresh |-> ip \notin DOMAIN rateLimitMap,
   before |-> EntryFor(ip), after |-> entry, limited |-> OverLimit(entry)]

\* The log with one more call, c being what the call read and returned.
Logged(c) ==
  LET e == [ip |-> c.ip, at |-> c.at, limited |-> c.limited]
  IN  [x \in DOMAIN log \cup {e} |->
         IF x = e THEN (IF e \in DOMAIN log THEN log[e] ELSE 0) + 1
         ELSE log[x]]

-----------------------------------------------------------------------------
(* CORS helpers, lines 65-80 *)

Includes(list, x) == \E j \in 1..Len(list) : list[j] = x

\* Seeded fault: the request's origin is echoed whatever it is.
AllowedEcho(o) == o

\* ALLOWED_ORIGINS.includes(origin) ? origin : ALLOWED_ORIGINS[0]
Allowed(o) == IF Includes(ALLOWED_ORIGINS, o) THEN o ELSE ALLOWED_ORIGINS[1]

corsHeaders(o) ==
  ("Access-Control-Allow-Origin" :> Allowed(o))
  @@ ("Access-Control-Allow-Methods" :> "POST, OPTIONS")
  @@ ("Access-Control-Allow-Headers" :> "Content-Type")
  @@ ("Access-Control-Max-Age" :> "86400")

NoHeaders == [h \in {} |-> ""]

\* A Response: its status, whether it has a body, the body text, the headers.
\* Status 0 stands for no Response yet.
NoResponse ==
  [status |-> 0, hasBody |-> FALSE, body |-> <<>>, headers |-> NoHeaders]

\* Seeded fault: a JSON response without the CORS headers.
jsonBare(body, status, o) ==
  [status  |-> status,
   hasBody |-> TRUE,
   body    |-> Stringify(body),
   headers |-> ("Content-Type" :> "application/json")]

\* new Response(JSON.stringify(body), { status, headers: {...} })
json(body, status, o) ==
  [status  |-> status,
   hasBody |-> TRUE,
   body    |-> Stringify(body),
   headers |-> ("Content-Type" :> "application/json") @@ corsHeaders(o)]

\* { error: msg }
ErrorBody(msg) == JObj(<<[k |-> <<"e", "r", "r", "o", "r">>, v |-> JStr(msg)]>>)

\* new Response(null, { status: 204, headers: corsHeaders(origin) })
Preflight(o) ==
  [status |-> 204, hasBody |-> FALSE, body |-> <<>>, headers |-> corsHeaders(o)]

-----------------------------------------------------------------------------
(* Request validation, lines 105-112 *)

KQuery == <<"q", "u", "e", "r", "y">>

\* String(v) for the values a query field can hold.
StringOf(v) ==
  CASE v.t = "string"  -> v.s
    [] v.t = "number"  -> Stringify(v)
    [] v.t = "boolean" -> Stringify(v)
    [] v.t = "array"   -> Join([j \in 1..Len(v.e) |-> <<"?">>])
    [] OTHER           -> <<"[", "o", "b", "j", "e", "c", "t", "]">>

\* Seeded fault: the query field is coerced to a string.
QueryOperandCoerced(body) ==
  LET q == Prop(body, KQuery)
  IN  IF Truthy(q) THEN JStr(StringOf(q)) ELSE JStr(<<>>)

\* body.query || ''
QueryOperand(body) ==
  LET q == Prop(body, KQuery) IN IF Truthy(q) THEN q ELSE JStr(<<>>)

\* Only a string has a trim method here; calling it on a number, a boolean,
\* an array or an object throws a TypeError.
HasTrim(v) == v.t = "string"

\* Seeded fault: the string is cut before it is trimmed.
CappedUntrimmed(s) == Trim(Slice0(s, QUERY_CAP))

\* .trim().slice(0, 500)
Capped(s) == Slice0(Trim(s), QUERY_CAP)

\* Seeded fault: the empty query is not rejected.
IsEmptyNever(q) == FALSE

\* if (!query) throw new Error('empty')
IsEmpty(q) == q = <<>>

\* The try block of lines 106-109 on the request's body text: the query, or
\* [ok |-> FALSE] when anything in it throws.
ParseQuery(text) ==
  LET body == ParseJSON(text)
  IN  IF ~body.ok THEN Failed
      ELSE IF Nullish(body.v) THEN Failed
      ELSE LET v == QueryOperand(body.v)
           IN  IF ~HasTrim(v) THEN Failed
               ELSE IF IsEmpty(Capped(v.s)) THEN Failed
               ELSE [ok |-> TRUE, query |-> Capped(v.s)]

-----------------------------------------------------------------------------
(* Upstream call and response parsing, lines 115-151 *)

\* The init argument of the outbound fetch, lines 116-122.
UpstreamRequest(q) ==
  [method             |-> "POST",
   system_instruction |-> "SYSTEM_INSTRUCTION",
   contents           |-> <<[parts |-> <<[text |-> q]>>]>>,
   temperature        |-> "0.3",
   maxOutputTokens    |-> 1024]

\* Response.ok
Ok(res) == res.status >= 200 /\ res.status <= 299

KCandidates == <<"c", "a", "n", "d", "i", "d", "a", "t", "e", "s">>
KContent    == <<"c", "o", "n", "t", "e", "n", "t">>
KParts      == <<"p", "a", "r", "t", "s">>
KText       == <<"t", "e", "x", "t">>

\* data.candidates[0].content.parts[0].text.trim() inside the try of lines
\* Seeded fault: a missing level gives the empty text (optional chaining).
RawTextLenient(data) ==
  LET tx == Prop(First(Prop(Prop(First(Prop(data, KCandidates)), KContent),
                            KParts)), KText)
  IN  IF HasTrim(tx) THEN [ok |-> TRUE, text |-> Trim(tx.s)]
      ELSE [ok |-> TRUE, text |-> <<>>]

\* 133-137: [ok |-> FALSE] when a step reads a property of undefined or null
\* or the text has no trim method.
RawText(data) ==
  LET cs == Prop(data, KCandidates)
      c0 == First(cs)
      ct == Prop(c0, KContent)
      ps == Prop(ct, KParts)
      p0 == First(ps)
      tx == Prop(p0, KText)
  IN  IF \/ Nullish(data) \/ Nullish(cs) \/ Nullish(c0) \/ Nullish(ct)
         \/ Nullish(ps) \/ Nullish(p0) \/ Nullish(tx)
      THEN Failed
      ELSE IF ~HasTrim(tx) THEN Failed
      ELSE [ok |-> TRUE, text |-> Trim(tx.s)]

\* The character U+0060; SANY cannot read it inside a string literal.
Backtick == "U+0060"
Fence == <<Backtick, Backtick, Backtick>>

LowerCase(c) ==
  CASE c = "J" -> "j" [] c = "S" -> "s" [] c = "O" -> "o" [] c = "N" -> "n"
    [] OTHER -> c

\* s from index i on.
From(s, i) == SubSeq(s, i, Len(s))

\* Seeded fault: the annotation is matched in lower case only.
StripJsonFenceExact(s) ==
  IF Matches(s, 1, Fence \o <<"j", "s", "o", "n">>)
  THEN From(s, SkipWs(s, 8))
  ELSE s

\* .replace(/^```json\s*/i, '')
StripJsonFence(s) ==
  IF /\ Matches(s, 1, Fence)
     /\ Len(s) >= 7
     /\ <<LowerCase(s[4]), LowerCase(s[5]), LowerCase(s[6]), LowerCase(s[7])>>
          = <<"j", "s", "o", "n">>
  THEN From(s, SkipWs(s, 8))
  ELSE s

\* .replace(/^```\s*/i, '')
StripOpenFence(s) ==
  IF Matches(s, 1, Fence) THEN From(s, SkipWs(s, 4)) ELSE s

\* .replace(/\s*```$/, '')
StripCloseFence(s) ==
  IF Len(s) >= 3 /\ Matches(s, Len(s) - 2, Fence)
  THEN TrimEnd(SubSeq(s, 1, Len(s) - 3))
  ELSE s

\* Lines 140-144.
Clean(rawText) ==
  Trim(StripCloseFence(StripOpenFence(StripJsonFence(rawText))))

-----------------------------------------------------------------------------
(* The fetch handler, lines 84-154.  An invocation is suspended at          *)
(* "request.json" (line 107), "fetch" (line 115), "error.json" (line 126)   *)
(* or "geminiRes.json" (line 131); it ends "returned" with a Response or    *)
(* "rejected" when an exception leaves the handler.                         *)

Invocations == 1..NumInvocations

\* The invocation that runs when requests are handled one after the other.
Serial == {1}

Settled == {"returned", "rejected"}

\* No Request: the slot is idle.
NoRequest ==
  [method |-> "", pathname |-> "", headers |-> NoHeaders, body |-> <<>>]

\* request.headers.get(name) || fallback
\* Seeded fault: only a missing header takes the fallback (?? for ||).
HeaderOrMissing(r, name, fallback) ==
  IF name \in DOMAIN r.headers THEN r.headers[name] ELSE fallback

HeaderOr(r, name, fallback) ==
  IF name \in DOMAIN r.headers /\ r.headers[name] # ""
  THEN r.headers[name]
  ELSE fallback

\* request.method === 'OPTIONS'
IsPreflight(r) == r.method = "OPTIONS"

\* Seeded fault: the path is not looked at.
NotFoundByMethod(r) == r.method # "POST"

\* request.method !== 'POST' || url.pathname !== '/api/query'
NotFound(r) == r.method # "POST" \/ r.pathname # "/api/query"

\* return resp
Returns(i, resp) ==
  /\ response' = [response EXCEPT ![i] = resp]
  /\ pc' = [pc EXCEPT ![i] = "returned"]

\* Seeded fault: the rate limiter runs before the method/path test.
FetchLimitsFirst(i, r) ==
  LET o     == HeaderOr(r, "Origin", "")
      ip    == HeaderOr(r, "CF-Connecting-IP", "unknown")
      entry == Counted(EntryFor(ip))
  IN  /\ pc[i] = "idle"
      /\ request' = [request EXCEPT ![i] = r]
      /\ origin' = [origin EXCEPT ![i] = o]
      /\ IF IsPreflight(r)
         THEN Returns(i, Preflight(o)) /\ UNCHANGED <<rateLimitMap, call>>
         ELSE /\ entry.count <= MaxCount
              /\ rateLimitMap' = MapSet(ip, entry)
              /\ call' = [call EXCEPT ![i] = Called(ip, entry)]
              /\ IF OverLimit(entry)
                 THEN Returns(i, json(ErrorBody(MsgRateLimited), 429, o))
                 ELSE IF NotFound(r)
                 THEN Returns(i, json(ErrorBody(MsgNotFound), 404, o))
                 ELSE /\ pc' = [pc EXCEPT ![i] = "request.json"]
                      /\ UNCHANGED response
      /\ UNCHANGED <<now, query, geminiRes, upstream, ticks>>

\* Lines 85-107: from the call of the handler to the await of the body.
Fetch(i, r) ==
  LET o     == HeaderOr(r, "Origin", "")
      ip    == HeaderOr(r, "CF-Connecting-IP", "unknown")
      entry == Counted(EntryFor(ip))
  IN  /\ pc[i] = "idle"
      /\ request' = [request EXCEPT ![i] = r]
      /\ origin' = [origin EXCEPT ![i] = o]
      /\ IF IsPreflight(r)
         THEN Returns(i, Preflight(o)) /\ UNCHANGED <<rateLimitMap, call>>
         ELSE IF NotFound(r)
         THEN /\ Returns(i, json(ErrorBody(MsgNotFound), 404, o))
              /\ UNCHANGED <<rateLimitMap, call>>
         ELSE /\ entry.count <= MaxCount
              /\ rateLimitMap' = MapSet(ip, entry)
              /\ call' = [call EXCEPT ![i] = Called(ip, entry)]
              /\ IF OverLimit(entry)
                 THEN Returns(i, json(ErrorBody(MsgRateLimited), 429, o))
                 ELSE /\ pc' = [pc EXCEPT ![i] = "request.json"]
                      /\ UNCHANGED response
      /\ UNCHANGED <<now, query, geminiRes, upstream, ticks>>

\* The step of invocation i adds the call of isRateLimited it made, if it
\* made one, to the log.
Recorded(i) ==
  log' = IF call'[i].made /\ ~call[i].made THEN Logged(call'[i]) ELSE log

\* Seeded fault: the entry computed before the await is stored after it.
RequestJsonStoresLate(i) ==
  LET q == ParseQuery(request[i].body)
  IN  /\ pc[i] = "request.json"
      /\ rateLimitMap' = MapSet(call[i].ip, call[i].after)
      /\ IF ~q.ok
         THEN /\ Returns(i, json(ErrorBody(MsgInvalid), 400, origin[i]))
              /\ UNCHANGED <<query, upstream>>
         ELSE /\ query' = [query EXCEPT ![i] = q.query]
              /\ upstream' =
                   [upstream EXCEPT ![i] = Append(@, UpstreamRequest(q.query))]
              /\ pc' = [pc EXCEPT ![i] = "fetch"]
              /\ UNCHANGED response
      /\ UNCHANGED <<now, request, origin, geminiRes, call, ticks, log>>

\* Lines 107-123: the body arrives (or fails to); the query is validated and
\* the upstream call is issued.
RequestJson(i) ==
  LET q == ParseQuery(request[i].body)
  IN  /\ pc[i] = "request.json"
      /\ IF ~q.ok
         THEN /\ Returns(i, json(ErrorBody(MsgInvalid), 400, origin[i]))
              /\ UNCHANGED <<query, upstream>>
         ELSE /\ query' = [query EXCEPT ![i] = q.query]
              /\ upstream' =
                   [upstream EXCEPT ![i] = Append(@, UpstreamRequest(q.query))]
              /\ pc' = [pc EXCEPT ![i] = "fetch"]
              /\ UNCHANGED response
      /\ UNCHANGED <<now, rateLimitMap, request, origin, geminiRes, call,
                     ticks, log>>

\* Line 115 resolves with the upstream Response res.
FetchResolves(i, res) ==
  /\ pc[i] = "fetch"
  /\ geminiRes' = [geminiRes EXCEPT ![i] = res]
  /\ pc' = [pc EXCEPT ![i] = IF Ok(res) THEN "geminiRes.json" ELSE "error.json"]
  /\ UNCHANGED <<now, rateLimitMap, request, origin, query, response, upstream,
                 call, ticks, log>>

\* Line 115 rejects (the connection to the upstream fails): nothing catches
\* it, so the handler's promise rejects.
FetchRejects(i) ==
  /\ pc[i] = "fetch"
  /\ pc' = [pc EXCEPT ![i] = "rejected"]
  /\ UNCHANGED <<now, rateLimitMap, request, origin, query, geminiRes, response,
                 upstream, call, ticks, log>>

\* Seeded fault: a failed upstream call is issued once more.
ErrorJsonRetries(i) ==
  /\ pc[i] = "error.json"
  /\ upstream' = [upstream EXCEPT ![i] = Append(@, UpstreamRequest(query[i]))]
  /\ pc' = [pc EXCEPT ![i] = "fetch"]
  /\ UNCHANGED <<now, rateLimitMap, request, origin, query, geminiRes, response,
                 call, ticks, log>>

\* Seeded fault: the upstream's status and error body are passed on.
ErrorJsonLeaks(i) ==
  LET err == ParseJSON(geminiRes[i].body)
  IN  /\ pc[i] = "error.json"
      /\ Returns(i, json(IF err.ok THEN err.v ELSE JObj(<<>>),
                         geminiRes[i].status, origin[i]))
      /\ UNCHANGED <<now, rateLimitMap, request, origin, query, geminiRes,
                     upstream, call, ticks, log>>

\* Lines 126-128: the error body is read, whatever it is (.catch(() => ({}))),
\* logged, and the fixed message returned.
ErrorJson(i) ==
  /\ pc[i] = "error.json"
  /\ Returns(i, json(ErrorBody(MsgUpstream), 502, origin[i]))
  /\ UNCHANGED <<now, rateLimitMap, request, origin, query, geminiRes, upstream,
                 call, ticks, log>>

\* Seeded fault: a parsed value that is not an object with a chips field is
\* turned down.
GeminiJsonValidates(i) ==
  LET data    == ParseJSON(geminiRes[i].body)
      rawText == RawText(data.v)
      parsed  == ParseJSON(Clean(rawText.text))
  IN  /\ pc[i] = "geminiRes.json"
      /\ IF ~data.ok
         THEN pc' = [pc EXCEPT ![i] = "rejected"] /\ UNCHANGED response
         ELSE IF ~rawText.ok
         THEN Returns(i, json(ErrorBody(MsgUnexpected), 502, origin[i]))
         ELSE IF ~parsed.ok
         THEN Returns(i, json(ErrorBody(MsgUnparseable), 502, origin[i]))
         ELSE IF Prop(parsed.v, <<"c", "h", "i", "p", "s">>).t # "array"
         THEN Returns(i, json(ErrorBody(MsgUnexpected), 502, origin[i]))
         ELSE Returns(i, json(parsed.v, 200, origin[i]))
      /\ UNCHANGED <<now, rateLimitMap, request, origin, query, geminiRes,
                     upstream, call, ticks, log>>

\* Lines 131-153: the success body is parsed (outside any try), the text
\* extracted, cleaned and parsed, and the result returned.
GeminiJson(i) ==
  LET data    == ParseJSON(geminiRes[i].body)
      rawText == RawText(data.v)
      parsed  == ParseJSON(Clean(rawText.text))
  IN  /\ pc[i] = "geminiRes.json"
      /\ IF ~data.ok
         THEN pc' = [pc EXCEPT ![i] = "rejected"] /\ UNCHANGED response
         ELSE IF ~rawText.ok
         THEN Returns(i, json(ErrorBody(MsgUnexpected), 502, origin[i]))
         ELSE IF ~parsed.ok
         THEN Returns(i, json(ErrorBody(MsgUnparseable), 502, origin[i]))
         ELSE Returns(i, json(parsed.v, 200, origin[i]))
      /\ UNCHANGED <<now, rateLimitMap, request, origin, query, geminiRes,
                     upstream, call, ticks, log>>

\* The runtime drops a settled invocation; its slot serves the next request.
Dispose(i) ==
  /\ pc[i] \in Settled
  /\ pc' = [pc EXCEPT ![i] = "idle"]
  /\ request' = [request EXCEPT ![i] = NoRequest]
  /\ origin' = [origin EXCEPT ![i] = ""]
  /\ query' = [query EXCEPT ![i] = <<>>]
  /\ geminiRes' = [geminiRes EXCEPT ![i] = NoResponse]
  /\ response' = [response EXCEPT ![i] = NoResponse]
  /\ upstream' = [upstream EXCEPT ![i] = <<>>]
  /\ call' = [call EXCEPT ![i] = NoCall]
  /\ UNCHANGED <<now, rateLimitMap, ticks, log>>

\* Time passes: Date.now() returns d more.
Tick(d) ==
  /\ ticks < MaxTicks
  /\ now' = now + d
  /\ ticks' = ticks + 1
  /\ UNCHANGED <<rateLimitMap, pc, request, origin, query, geminiRes, response,
                 upstream, call, log>>

\* Line 51 and no invocation yet.
Init ==
  /\ now = 0
  /\ ticks = 0
  /\ rateLimitMap = [k \in {} |-> [count |-> 0, start |-> 0]]
  /\ pc = [i \in Invocations |-> "idle"]
  /\ request = [i \in Invocations |-> NoRequest]
  /\ origin = [i \in Invocations |-> ""]
  /\ query = [i \in Invocations |-> <<>>]
  /\ geminiRes = [i \in Invocations |-> NoResponse]
  /\ response = [i \in Invocations |-> NoResponse]
  /\ upstream = [i \in Invocations |-> <<>>]
  /\ call = [i \in Invocations |-> NoCall]
  /\ log = <<>>

-----------------------------------------------------------------------------
(* Inputs: the requests clients send and the responses the upstream gives *)

AllowedOrigin == "https://athumoz.github.io"
OtherOrigin   == "https://evil.example"
SomeIp        == "203.0.113.7"
OtherIp       == "198.51.100.9"

\* The header sets that carry any of the given Origin and connecting-IP
\* values, or lack the header.
HeadersOver(origins, ips) ==
  { o @@ c : o \in {NoHeaders} \cup {"Origin" :> v : v \in origins},
             c \in {NoHeaders} \cup {"CF-Connecting-IP" :> v : v \in ips} }

RequestsOver(methods, paths, headers, bodies) ==
  [method : methods, pathname : paths, headers : headers, body : bodies]

\* { "query": v }
QueryBody(v) == Stringify(JObj(<<[k |-> KQuery, v |-> v]>>))

\* A string of n characters whose content depends on the position.
Letters == <<"a", "b", "c", "d", "e", "f", "g">>
LongString(n) == [j \in 1..n |-> Letters[(j % 7) + 1]]

BodyMalformed == <<"{", "\"", "q", "u", "e", "r", "y", "\"", ":">>
BodyAbsent    == <<>>
BodyNoQuery   == Stringify(JObj(<<>>))
BodyNull      == Stringify(JNull)
BodyEmpty     == QueryBody(JStr(<<>>))
BodyBlank     == QueryBody(JStr(<<" ", "\t", " ">>))
BodyShort     == QueryBody(JStr(<<"O", "E", " ", "2", "0", "2", "6", "?">>))
BodyPadded    == QueryBody(JStr(<<" ", "\n", "a", " ", "b", "\t", " ">>))
BodyAtCap     == QueryBody(JStr(LongString(QUERY_CAP)))
BodyLong      == QueryBody(JStr(<<" ">> \o LongString(LongLen) \o <<"\n">>))
BodyNumber    == QueryBody(JNum(123))
BodyTrue      == QueryBody(JBool(TRUE))
BodyZero      == QueryBody(JNum(0))
BodyList      == QueryBody(JArr(<<JStr(<<"a">>)>>))

InvalidBodies ==
  {BodyMalformed, BodyAbsent, BodyNoQuery, BodyNull, BodyEmpty, BodyBlank,
   BodyZero}
StringBodies == {BodyShort, BodyPadded, BodyAtCap, BodyLong}
NonStringBodies == {BodyNumber, BodyTrue, BodyList}

\* { candidates: [ { content: { parts: [ { text: tx } ] } } ] }
Envelope(tx) ==
  JObj(<<[k |-> KCandidates, v |-> JArr(<<
    JObj(<<[k |-> KContent, v |->
      JObj(<<[k |-> KParts, v |-> JArr(<<
        JObj(<<[k |-> KText, v |-> tx]>>) >>)]>>)]>>) >>)]>>)

UpstreamOk(v) == [status |-> 200, body |-> Stringify(v)]

Payload == JObj(<<[k |-> <<"a">>, v |-> JNum(1)]>>)
TextPlain  == Stringify(Payload)
TextFenced ==
  <<" ">> \o Fence \o <<"j", "s", "o", "n", "\n">> \o TextPlain
  \o <<"\n">> \o Fence \o <<" ">>
TextNotJson == <<"n", "o", "t", " ", "j", "s", "o", "n">>

UpstreamErrors ==
  { [status |-> 500,
     body |-> Stringify(ErrorBody(<<"q", "u", "o", "t", "a">>))],
    [status |-> 503, body |-> <<"<", "h", "t", "m", "l", ">">>] }

UpstreamNotJson == [status |-> 200, body |-> <<"<", "h", "t", "m", "l", ">">>]

\* An envelope whose first candidate has the content ct.
Candidate(ct) ==
  JObj(<<[k |-> KCandidates, v |-> JArr(<<
    JObj(<<[k |-> KContent, v |-> ct]>>) >>)]>>)

NoParts    == UpstreamOk(Candidate(JObj(<<>>)))
EmptyParts == UpstreamOk(Candidate(JObj(<<[k |-> KParts, v |-> JArr(<<>>)]>>)))
NoText     ==
  UpstreamOk(Candidate(JObj(<<[k |-> KParts, v |-> JArr(<<JObj(<<>>)>>)]>>)))

UpstreamShapeless ==
  { UpstreamOk(JNull),
    UpstreamOk(JObj(<<>>)),
    UpstreamOk(JObj(<<[k |-> KCandidates, v |-> JArr(<<>>)]>>)),
    UpstreamOk(JObj(<<[k |-> KCandidates, v |-> JArr(<<JObj(<<>>)>>)]>>)),
    NoParts, EmptyParts, NoText,
    UpstreamOk(Envelope(JNum(7))) }

UpstreamTexts ==
  { UpstreamOk(Envelope(JStr(tx))) : tx \in {TextPlain, TextFenced, TextNotJson} }

-----------------------------------------------------------------------------
(* Specifications *)

\* The whole pipeline for one client key: every method, path, origin and
\* body, every upstream outcome; the clock stands still.
Requests ==
  RequestsOver({"OPTIONS", "POST", "GET"}, {"/api/query", "/other"},
               HeadersOver({AllowedOrigin, OtherOrigin}, {""}),
               InvalidBodies \cup StringBodies \cup NonStringBodies)

UpstreamResponses ==
  UpstreamErrors \cup {UpstreamNotJson} \cup UpstreamShapeless
  \cup UpstreamTexts

Next ==
  \E i \in Serial :
    \/ \E r \in Requests : Fetch(i, r) /\ UNCHANGED log
    \/ RequestJson(i)
    \/ \E res \in UpstreamResponses : FetchResolves(i, res)
    \/ FetchRejects(i)
    \/ ErrorJson(i)
    \/ GeminiJson(i)
    \/ Dispose(i)

Spec == Init /\ [][Next]_vars

\* The rate limiter over time: POST /api/query from two client keys while
\* the clock advances by one millisecond or by a whole window.  The bodies
\* are blank, so an admitted request ends with 400.
LimiterRequests ==
  RequestsOver({"POST"}, {"/api/query"}, HeadersOver({}, {"", SomeIp}),
               {BodyBlank})

TickDeltas == {1, win}

NextLimiter ==
  \/ \E i \in Serial :
       \/ \E r \in LimiterRequests : Fetch(i, r) /\ UNCHANGED log
       \/ RequestJson(i)
       \/ Dispose(i)
  \/ \E d \in TickDeltas : Tick(d)

SpecLimiter == Init /\ [][NextLimiter]_vars

\* The rate limiter with its history: POST /api/query without a client
\* address while the clock advances, every call of isRateLimited logged.
HistoryRequests ==
  RequestsOver({"POST"}, {"/api/query"}, HeadersOver({}, {}), {BodyBlank})

NextHistory ==
  \/ \E i \in Serial :
       \/ \E r \in HistoryRequests : Fetch(i, r) /\ Recorded(i)
       \/ RequestJson(i)
       \/ Dispose(i)
  \/ \E d \in TickDeltas : Tick(d)

SpecHistory == Init /\ [][NextHistory]_vars

\* Interleaved invocations for one client key in one window: any invocation
\* that is suspended at an await may be the next to run, and every call of
\* isRateLimited is logged.
ConcurrentRequests ==
  RequestsOver({"POST"}, {"/api/query"}, HeadersOver({}, {}), {BodyShort})

ConcurrentResponses == { [status |-> 503, body |-> <<>>] }

NextConcurrent ==
  \E i \in Invocations :
    \/ \E r \in ConcurrentRequests : Fetch(i, r) /\ Recorded(i)
    \/ RequestJson(i)
    \/ \E res \in ConcurrentResponses : FetchResolves(i, res)
    \/ ErrorJson(i)
    \/ Dispose(i)

SpecConcurrent == Init /\ [][NextConcurrent]_vars

\* The sanitizer as a function of the upstream text: an invocation that has
\* sent its one upstream call and waits for the body of a 200 answer whose
\* candidate text is a JSON text between optional fences and whitespace.
JsonObject  ==
  <<"{", "\"", "a", "\"", ":", "1", "}">>
JsonArray   ==
  <<"[", "1", ",", " ", "\"", "x", "\"", "]">>
JsonNumber  == <<"7">>
JsonNull    == <<"n", "u", "l", "l">>
JsonString  == <<"\"">> \o Fence \o <<"\"">>
JsonPayload ==
  <<"{", " ", "\"", "c", "h", "i", "p", "s", "\"", " ", ":", " ", "[",
    "\"", "x", "\"", "]", ",", "\n", " ", "\"", "c", "o", "n", "f", "i",
    "d", "e", "n", "c", "e", "\"", ":", " ", "8", "0", " ", "}">>

JsonTexts ==
  {JsonObject, JsonArray, JsonNumber, JsonNull, JsonString, JsonPayload}

Margins == { <<>>, <<" ", "\n">> }
Gaps    == { <<>>, <<"\n", "\t">> }
Openers ==
  { <<>>, Fence, Fence \o <<"j", "s", "o", "n">>,
    Fence \o <<"J", "S", "O", "N">>, Fence \o <<"J", "s", "o", "n">> }
Closers == { <<>>, Fence }

FencedTexts ==
  { l \o f \o g \o p \o h \o c \o t :
      l \in Margins, f \in Openers, g \in Gaps, p \in JsonTexts,
      h \in Gaps, c \in Closers, t \in Margins }

SanitizerRequests ==
  RequestsOver({"POST"}, {"/api/query"},
               HeadersOver({AllowedOrigin, OtherOrigin}, {}), {BodyShort})

\* The state Fetch, RequestJson and FetchResolves leave for the first request
\* r of the process and the upstream text tx.
InitSanitizer ==
  \E r \in SanitizerRequests, tx \in FencedTexts :
    LET q == ParseQuery(r.body).query
    IN  /\ now = 0
        /\ ticks = 0
        /\ rateLimitMap = ("unknown" :> [count |-> 1, start |-> 0])
        /\ pc = [i \in Invocations |->
                   IF i = 1 THEN "geminiRes.json" ELSE "idle"]
        /\ request = [i \in Invocations |-> IF i = 1 THEN r ELSE NoRequest]
        /\ origin = [i \in Invocations |->
                       IF i = 1 THEN HeaderOr(r, "Origin", "") ELSE ""]
        /\ query = [i \in Invocations |-> IF i = 1 THEN q ELSE <<>>]
        /\ geminiRes = [i \in Invocations |->
                          IF i = 1 THEN UpstreamOk(Envelope(JStr(tx)))
                          ELSE NoResponse]
        /\ response = [i \in Invocations |-> NoResponse]
        /\ upstream = [i \in Invocations |->
                         IF i = 1 THEN <<UpstreamRequest(q)>> ELSE <<>>]
        /\ call = [i \in Invocations |->
                     IF i = 1
                     THEN [made |-> TRUE, ip |-> "unknown", at |-> 0,
                           fresh |-> TRUE, before |-> [count |-> 0, start |-> 0],
                           after |-> [count |-> 1, start |-> 0],
                           limited |-> FALSE]
                     ELSE NoCall]
        /\ log = <<>>

NextSanitizer ==
  \E i \in Serial :
    \/ GeminiJson(i)
    \/ Dispose(i)

SpecSanitizer == InitSanitizer /\ [][NextSanitizer]_vars

-----------------------------------------------------------------------------
(* Properties *)

\* The client key of a request, read off its headers.
ClientKey(r) ==
  IF "CF-Connecting-IP" \in DOMAIN r.headers /\ r.headers["CF-Connecting-IP"] # ""
  THEN r.headers["CF-Connecting-IP"]
  ELSE "unknown"

\* The request is a POST to exactly /api/query.
IsQuery(r) == r.method = "POST" /\ r.pathname = "/api/query"

\* C1: for any client key, a call of isRateLimited made while the key's
\* window is open (at a time t with t - windowStart <= 60000) counts one more
\* in that window and is admitted when it is the 1st..20th of the window and
\* denied when it is the 21st or later; a call made with no record, or after
\* the window has elapsed, starts a new window with count 1 and is admitted,
\* also when the previous call was denied.  A denied call is answered 429.
C1_Admission ==
  \A i \in Invocations :
    call[i].made =>
      LET c == call[i]
          sameWindow == ~c.fresh /\ c.at - c.before.start <= 60000
      IN  /\ c.ip = ClientKey(request[i])
          /\ IF sameWindow
             THEN /\ c.after = [count |-> c.before.count + 1,
                                start |-> c.before.start]
                  /\ c.limited <=> (c.after.count >= 21)
             ELSE /\ c.after = [count |-> 1, start |-> c.at]
                  /\ ~c.limited
          /\ c.limited <=> (pc[i] = "returned" /\ response[i].status = 429)

\* A client that was denied (its count had passed 20) is admitted again by
\* its first call after the window.
C1_Witness ==
  \E i \in Invocations :
    /\ call[i].made /\ ~call[i].fresh
    /\ call[i].before.count >= 21
    /\ call[i].at - call[i].before.start > 60000
    /\ ~call[i].limited
    /\ pc[i] = "request.json"

\* The value of the request's Origin header, "" without one.
OriginOf(r) ==
  IF "Origin" \in DOMAIN r.headers THEN r.headers["Origin"] ELSE ""

\* The text sent upstream as the user turn of call c.
UserTurn(c) == c.contents[1].parts[1].text

\* The invocation was admitted by the rate limiter and its body was read.
Validated(i) ==
  /\ pc[i] \notin {"idle", "request.json"}
  /\ IsQuery(request[i])
  /\ call[i].made /\ ~call[i].limited

\* The response body is a JSON object with a string error field.
HasErrorField(resp) ==
  LET b == ParseJSON(resp.body)
  IN  /\ resp.hasBody /\ b.ok /\ b.v.t = "object"
      /\ Prop(b.v, <<"e", "r", "r", "o", "r">>).t = "string"

\* C2: the status of a response is decided by the first failing step in the
\* order OPTIONS -> 204, method/path mismatch -> 404, rate limited -> 429,
\* invalid body -> 400, upstream failure -> 502, unparseable upstream text ->
\* 502, otherwise 200.
C2_StepOrder ==
  \A i \in Invocations :
    pc[i] = "returned" =>
      response[i].status =
        IF request[i].method = "OPTIONS" THEN 204
        ELSE IF ~IsQuery(request[i]) THEN 404
        ELSE IF call[i].limited THEN 429
        ELSE IF request[i].body \notin StringBodies THEN 400
        ELSE IF geminiRes[i] \in UpstreamErrors \cup UpstreamShapeless THEN 502
        ELSE IF geminiRes[i] = UpstreamOk(Envelope(JStr(TextNotJson))) THEN 502
        ELSE 200

\* A rate-limited client that sends a malformed body is answered 429.
C2_Witness ==
  \E i \in Invocations :
    /\ pc[i] = "returned" /\ response[i].status = 429
    /\ call[i].limited
    /\ request[i].body = BodyMalformed

\* C3: an invocation issues the upstream call at most once, and only for a
\* POST /api/query that the rate limiter admitted and whose Query is not
\* empty; the call carries that Query; a request answered 204, 404, 429 or
\* 400 issued none, and one that got past validation issued exactly one.
C3_SingleAttempt ==
  \A i \in Invocations :
    /\ Len(upstream[i]) <= 1
    /\ upstream[i] # <<>> =>
         /\ IsQuery(request[i])
         /\ call[i].made /\ ~call[i].limited
         /\ query[i] # <<>>
         /\ UserTurn(upstream[i][1]) = query[i]
    /\ (pc[i] = "returned" /\ response[i].status \in {204, 404, 429, 400})
         => upstream[i] = <<>>
    /\ (pc[i] = "returned" /\ response[i].status \in {502, 200})
         => Len(upstream[i]) = 1

\* An upstream failure answered 502 after exactly one upstream call.
C3_Witness ==
  \E i \in Invocations :
    /\ pc[i] = "returned" /\ response[i].status = 502
    /\ geminiRes[i] \in UpstreamErrors
    /\ Len(upstream[i]) = 1

\* C4: no error escapes the handler: whatever fails while a request is
\* handled (body unparseable or missing, the upstream call not completing,
\* an upstream status that is not a success, a success body that is not
\* JSON, an envelope without the candidates/content/parts/text nesting, text
\* that is not JSON), the invocation ends by returning a JSON error response
\* with CORS headers; it never ends by throwing (rejecting).
C4_NoErrorEscapes ==
  \A i \in Invocations :
    /\ pc[i] # "rejected"
    /\ (pc[i] = "returned" /\ response[i].status \in {400, 502}) =>
         /\ HasErrorField(response[i])
         /\ "Access-Control-Allow-Origin" \in DOMAIN response[i].headers

\* C5: every response the handler returns carries
\* Access-Control-Allow-Origin resolved from the Origin header of its own
\* request and the fixed Allow-Methods, Allow-Headers and Max-Age values.
C5_CorsOnEveryExit ==
  \A i \in Invocations :
    pc[i] = "returned" =>
      LET h == response[i].headers
          o == OriginOf(request[i])
      IN  /\ response[i].status \in {204, 404, 429, 400, 502, 200}
          /\ { "Access-Control-Allow-Origin", "Access-Control-Allow-Methods",
               "Access-Control-Allow-Headers", "Access-Control-Max-Age" }
               \subseteq DOMAIN h
          /\ h["Access-Control-Allow-Origin"] =
               (IF o = "https://athumoz.github.io" THEN o
                ELSE "https://athumoz.github.io")
          /\ h["Access-Control-Allow-Methods"] = "POST, OPTIONS"
          /\ h["Access-Control-Allow-Headers"] = "Content-Type"
          /\ h["Access-Control-Max-Age"] = "86400"

\* An error exit (the text of the upstream was not JSON) of a request from
\* an origin that is not allow-listed.
C5_Witness ==
  \E i \in Invocations :
    /\ pc[i] = "returned" /\ response[i].status = 502
    /\ response[i].body = Stringify(ErrorBody(MsgUnparseable))
    /\ OriginOf(request[i]) = OtherOrigin
    /\ "Access-Control-Allow-Origin" \in DOMAIN response[i].headers

\* C6: the origin put in Access-Control-Allow-Origin is the request's origin
\* when it is in the allow-list and the first allow-listed origin otherwise
\* (also for "", the origin of a request without the header); a request is
\* never turned away for its origin: a POST /api/query reaches the rate
\* limiter whatever its origin, and no response has status 403.
C6_OriginResolution ==
  /\ \A o \in {AllowedOrigin, OtherOrigin, ""} :
       corsHeaders(o)["Access-Control-Allow-Origin"] =
         (IF \E j \in 1..Len(ALLOWED_ORIGINS) : ALLOWED_ORIGINS[j] = o THEN o
          ELSE ALLOWED_ORIGINS[1])
  /\ \A i \in Invocations :
       /\ pc[i] # "idle" => origin[i] = OriginOf(request[i])
       /\ (pc[i] # "idle" /\ IsQuery(request[i])) => call[i].made
       /\ pc[i] = "returned" =>
            /\ response[i].status # 403
            /\ response[i].headers["Access-Control-Allow-Origin"] =
                 (IF OriginOf(request[i]) = AllowedOrigin
                  THEN OriginOf(request[i]) ELSE AllowedOrigin)

\* A request from an origin outside the allow-list served with status 200
\* and the default origin in the header.
C6_Witness ==
  \E i \in Invocations :
    /\ pc[i] = "returned" /\ response[i].status = 200
    /\ OriginOf(request[i]) = OtherOrigin
    /\ response[i].headers["Access-Control-Allow-Origin"] = AllowedOrigin

\* The text {"error":"Not found"}.
NotFoundText ==
  <<"{", "\"", "e", "r", "r", "o", "r", "\"", ":", "\"", "N", "o", "t", " ",
    "f", "o", "u", "n", "d", "\"", "}">>

\* C7: an OPTIONS request to any path returns 204 with no body, and any other
\* request that is not a POST to exactly /api/query returns 404
\* {"error":"Not found"}; both whatever the rate-limit state of the client,
\* leaving the rate-limit table unchanged and issuing no upstream call.
C7_PreLimiterExits ==
  [][ \A i \in Invocations :
        (pc[i] = "idle" /\ pc'[i] # "idle") =>
          LET r == request'[i]
          IN  /\ r.method = "OPTIONS" =>
                   /\ pc'[i] = "returned"
                   /\ response'[i].status = 204
                   /\ ~response'[i].hasBody
                   /\ rateLimitMap' = rateLimitMap
                   /\ ~call'[i].made
                   /\ upstream'[i] = <<>>
              /\ (r.method # "OPTIONS" /\ ~IsQuery(r)) =>
                   /\ pc'[i] = "returned"
                   /\ response'[i].status = 404
                   /\ response'[i].body = NotFoundText
                   /\ rateLimitMap' = rateLimitMap
                   /\ ~call'[i].made
                   /\ upstream'[i] = <<>> ]_vars

\* A POST to another path answered 404 while its client is being denied.
C7_Witness ==
  \E i \in Invocations :
    /\ pc[i] = "returned" /\ response[i].status = 404
    /\ request[i].method = "POST"
    /\ ClientKey(request[i]) \in DOMAIN rateLimitMap
    /\ rateLimitMap[ClientKey(request[i])].count > 20

\* C8: for a POST /api/query admitted by the rate limiter, a body that is not
\* parseable JSON (malformed or absent), a body without a query field, and a
\* body whose query is empty or only whitespace yield status 400 with an
\* error field, and no upstream call is made.
C8_InvalidInput ==
  \A i \in Invocations :
    ( /\ Validated(i)
      /\ request[i].body \in
           {BodyMalformed, BodyAbsent, BodyNoQuery, BodyEmpty, BodyBlank} )
    => /\ pc[i] = "returned"
       /\ response[i].status = 400
       /\ HasErrorField(response[i])
       /\ upstream[i] = <<>>
       /\ geminiRes[i] = NoResponse

\* A whitespace-only query answered 400.
C8_Witness ==
  \E i \in Invocations :
    /\ Validated(i)
    /\ request[i].body = BodyBlank
    /\ response[i].status = 400

\* The first n characters of the long string, written out by position.
LongPrefix(n) == [j \in 1..n |-> Letters[(j % 7) + 1]]

\* C9: a query longer than 500 characters after trimming is not rejected:
\* the Query sent as the single user turn of the upstream call is the first
\* 500 characters of the trimmed string, and a trimmed string of 1..500
\* characters is sent as it is.
C9_Truncation ==
  \A i \in Invocations :
    (Validated(i) /\ request[i].body \in StringBodies) =>
      /\ Len(upstream[i]) = 1
      /\ Len(upstream[i][1].contents) = 1
      /\ Len(upstream[i][1].contents[1].parts) = 1
      /\ ~(pc[i] = "returned" /\ response[i].status = 400)
      /\ UserTurn(upstream[i][1]) =
           CASE request[i].body = BodyLong   -> LongPrefix(500)
             [] request[i].body = BodyAtCap  -> LongPrefix(500)
             [] request[i].body = BodyPadded -> <<"a", " ", "b">>
             [] request[i].body = BodyShort  ->
                  <<"O", "E", " ", "2", "0", "2", "6", "?">>

\* The over-long query went upstream cut to 500 characters.
C9_Witness ==
  \E i \in Invocations :
    /\ Validated(i)
    /\ request[i].body = BodyLong
    /\ Len(upstream[i]) = 1
    /\ Len(UserTurn(upstream[i][1])) = 500

\* C10 as stated: a present query value that is not a string (123, true) is
\* coerced to a string, and the request proceeds to the upstream with the
\* string form as its Query.
C10_Coerces ==
  \A i \in Invocations :
    (Validated(i) /\ request[i].body \in {BodyNumber, BodyTrue}) =>
      /\ Len(upstream[i]) = 1
      /\ UserTurn(upstream[i][1]) =
           (IF request[i].body = BodyNumber THEN <<"1", "2", "3">>
            ELSE <<"t", "r", "u", "e">>)

\* C10 amended: the query value is not coerced: a present query value that
\* is not a string (123, true, 0, null, an array) fails validation; the
\* request is answered 400 with an error field and no upstream call is made.
C10_NonStringRejected ==
  \A i \in Invocations :
    ( /\ Validated(i)
      /\ request[i].body \in NonStringBodies \cup {BodyZero, BodyNull} ) =>
      /\ pc[i] = "returned"
      /\ response[i].status = 400
      /\ HasErrorField(response[i])
      /\ upstream[i] = <<>>

\* The query 123 answered 400.
C10_Witness ==
  \E i \in Invocations :
    /\ Validated(i)
    /\ request[i].body = BodyNumber
    /\ response[i].status = 400
    /\ upstream[i] = <<>>

\* The text {"error":"Erro ao processar a pergunta. Tente novamente."}.
UpstreamFailureText ==
  <<"{", "\"", "e", "r", "r", "o", "r", "\"", ":", "\"", "E", "r", "r",
    "o", " ", "a", "o", " ", "p", "r", "o", "c", "e", "s", "s", "a", "r",
    " ", "a", " ", "p", "e", "r", "g", "u", "n", "t", "a", ".", " ", "T",
    "e", "n", "t", "e", " ", "n", "o", "v", "a", "m", "e", "n", "t", "e",
    ".", "\"", "}">>

\* The upstream answered invocation i with a status that is not a success.
UpstreamFailed(i) ==
  /\ geminiRes[i] # NoResponse
  /\ geminiRes[i].status < 200 \/ geminiRes[i].status > 299

\* C11: whenever the upstream answers with a status that is not a success,
\* the handler returns 502 with one fixed message: status and body of the
\* response are the same whatever the upstream's status and error body, so
\* two runs that differ only in them give the client the same response.
C11_NoLeak ==
  \A i \in Invocations :
    (pc[i] = "returned" /\ UpstreamFailed(i)) =>
      /\ response[i].status = 502
      /\ response[i].hasBody
      /\ response[i].body = UpstreamFailureText
      /\ DOMAIN response[i].headers =
           { "Content-Type", "Access-Control-Allow-Origin",
             "Access-Control-Allow-Methods", "Access-Control-Allow-Headers",
             "Access-Control-Max-Age" }
      /\ response[i].headers["Content-Type"] = "application/json"

\* An upstream 500 with a JSON error body answered with the fixed message.
C11_Witness ==
  \E i \in Invocations :
    /\ pc[i] = "returned"
    /\ geminiRes[i].status = 500
    /\ geminiRes[i].body # <<>>
    /\ response[i].status = 502
    /\ response[i].body = UpstreamFailureText

\* The text {"error":"Resposta inesperada do servidor."}.
UnexpectedText ==
  <<"{", "\"", "e", "r", "r", "o", "r", "\"", ":", "\"", "R", "e", "s",
    "p", "o", "s", "t", "a", " ", "i", "n", "e", "s", "p", "e", "r", "a",
    "d", "a", " ", "d", "o", " ", "s", "e", "r", "v", "i", "d", "o", "r",
    ".", "\"", "}">>

\* The text
\* {"error":"Não foi possível interpretar a resposta. Tente novamente."}.
UninterpretableText ==
  <<"{", "\"", "e", "r", "r", "o", "r", "\"", ":", "\"", "N", "ã", "o",
    " ", "f", "o", "i", " ", "p", "o", "s", "s", "í", "v", "e", "l", " ",
    "i", "n", "t", "e", "r", "p", "r", "e", "t", "a", "r", " ", "a", " ",
    "r", "e", "s", "p", "o", "s", "t", "a", ".", " ", "T", "e", "n", "t",
    "e", " ", "n", "o", "v", "a", "m", "e", "n", "t", "e", ".", "\"", "}">>

\* The texts of the other error kinds: 404, 429, 400.
OtherErrorTexts ==
  { NotFoundText,
    <<"{", "\"", "e", "r", "r", "o", "r", "\"", ":", "\"", "D", "e", "m",
      "a", "s", "i", "a", "d", "o", "s", " ", "p", "e", "d", "i", "d", "o",
      "s", ".", " ", "T", "e", "n", "t", "e", " ", "n", "o", "v", "a", "m",
      "e", "n", "t", "e", " ", "e", "m", " ", "1", " ", "m", "i", "n", "u",
      "t", "o", ".", "\"", "}">>,
    <<"{", "\"", "e", "r", "r", "o", "r", "\"", ":", "\"", "P", "e", "r",
      "g", "u", "n", "t", "a", " ", "i", "n", "v", "á", "l", "i", "d", "a",
      " ", "o", "u", " ", "a", "u", "s", "e", "n", "t", "e", ".", "\"",
      "}">> }

\* The upstream answered invocation i with a success whose text is not JSON.
TextIsNotJson(i) == geminiRes[i] = UpstreamOk(Envelope(JStr(TextNotJson)))

\* C12 as stated: a success envelope without the
\* candidates[0].content.parts[0].text nesting is answered 502 with the
\* message of an upstream failure (the one of a non-success status), and a
\* text that is not JSON is answered 502 with the 'could not interpret'
\* message.
C12_UpstreamFailureMessage ==
  \A i \in Invocations :
    pc[i] = "returned" =>
      /\ geminiRes[i] \in UpstreamShapeless =>
           /\ response[i].status = 502
           /\ response[i].body = UpstreamFailureText
      /\ TextIsNotJson(i) =>
           /\ response[i].status = 502
           /\ response[i].body = UninterpretableText

\* C12 amended: a success envelope without the nesting is answered 502 with
\* a fixed 'unexpected response' message of its own, which is not the
\* message of a non-success status; a text that is not JSON is answered 502
\* with the 'could not interpret' message, which no response of another
\* error kind (404, 429, 400, non-success status, unexpected envelope)
\* carries.
C12_UnusablePayload ==
  /\ UninterpretableText \notin
       OtherErrorTexts \cup {UpstreamFailureText, UnexpectedText}
  /\ UnexpectedText # UpstreamFailureText
  /\ \A i \in Invocations :
       pc[i] = "returned" =>
         /\ geminiRes[i] \in UpstreamShapeless =>
              /\ response[i].status = 502
              /\ response[i].body = UnexpectedText
         /\ TextIsNotJson(i) =>
              /\ response[i].status = 502
              /\ response[i].body = UninterpretableText
         /\ response[i].body = UninterpretableText => TextIsNotJson(i)
         /\ response[i].status \in {404, 429, 400} =>
              response[i].body \in OtherErrorTexts

\* An envelope with an empty parts list answered with the 'unexpected
\* response' message.
C12_Witness ==
  \E i \in Invocations :
    /\ pc[i] = "returned"
    /\ geminiRes[i] = EmptyParts
    /\ response[i].status = 502
    /\ response[i].body = UnexpectedText

\* The candidate text of a success envelope.
CandidateText(res) ==
  Prop(First(Prop(Prop(First(Prop(ParseJSON(res.body).v, KCandidates)),
                       KContent), KParts)), KText).s

\* JSON texts with the value each denotes and the text JSON.stringify gives
\* for that value.
JsonCases ==
  { [text  |-> JsonObject,
     value |-> JObj(<<[k |-> <<"a">>, v |-> JNum(1)]>>),
     body  |-> JsonObject],
    [text  |-> JsonArray,
     value |-> JArr(<<JNum(1), JStr(<<"x">>)>>),
     body  |-> <<"[", "1", ",", "\"", "x", "\"", "]">>],
    [text  |-> JsonNumber, value |-> JNum(7), body |-> JsonNumber],
    [text  |-> JsonNull, value |-> JNull, body |-> JsonNull],
    [text  |-> JsonString, value |-> JStr(Fence), body |-> JsonString],
    [text  |-> JsonPayload,
     value |-> JObj(<<[k |-> <<"c", "h", "i", "p", "s">>,
                       v |-> JArr(<<JStr(<<"x">>)>>)],
                      [k |-> <<"c", "o", "n", "f", "i", "d", "e", "n", "c", "e">>,
                       v |-> JNum(80)]>>),
     body  |->
      <<"{", "\"", "c", "h", "i", "p", "s", "\"", ":", "[", "\"", "x",
        "\"", "]", ",", "\"", "c", "o", "n", "f", "i", "d", "e", "n", "c",
        "e", "\"", ":", "8", "0", "}">>] }

\* C13: a candidate text made of optional whitespace, an opening fence
\* (three backticks alone or followed by json in any letter case),
\* whitespace, a JSON text P, whitespace, a closing fence and optional
\* whitespace is cleaned to exactly P, and the value returned is the value
\* P denotes; the same holds with only the opening or only the closing
\* fence.
C13_FenceStripping ==
  \A i \in Invocations :
    pc[i] = "returned" =>
      LET tx == CandidateText(geminiRes[i])
      IN  \A p \in JsonCases :
            \A l \in Margins, f \in Openers, g \in Gaps, h \in Gaps,
               c \in Closers, t \in Margins :
              (tx = l \o f \o g \o p.text \o h \o c \o t) =>
                /\ Clean(Trim(tx)) = p.text
                /\ response[i].status = 200
                /\ ParseJSON(response[i].body) = [ok |-> TRUE, v |-> p.value]

\* The fenced text of the spec, with JSON in capitals, gave {"a":1}.
C13_Witness ==
  \E i \in Invocations :
    /\ pc[i] = "returned"
    /\ CandidateText(geminiRes[i]) =
         <<" ", "\n">> \o Fence \o <<"J", "S", "O", "N", "\n", "\t">>
         \o JsonObject \o <<"\n", "\t">> \o Fence \o <<" ", "\n">>
    /\ response[i].status = 200
    /\ response[i].body = JsonObject

\* C14: when the cleaned text of a success envelope is valid JSON, the
\* response has status 200, its body is the parsed value unchanged and its
\* Access-Control-Allow-Origin is the origin resolved for the request; no
\* field is looked at, so an object without the payload fields, an array, a
\* number, a string and null are returned with status 200 like a payload.
C14_Verbatim ==
  \A i \in Invocations :
    pc[i] = "returned" =>
      \A p \in JsonCases :
        (CandidateText(geminiRes[i]) = p.text) =>
          /\ response[i].status = 200
          /\ response[i].hasBody
          /\ response[i].body = p.body
          /\ response[i].headers["Content-Type"] = "application/json"
          /\ response[i].headers["Access-Control-Allow-Origin"] =
               (IF OriginOf(request[i]) = "https://athumoz.github.io"
                THEN OriginOf(request[i]) ELSE "https://athumoz.github.io")

\* The text null returned as the body null with status 200.
C14_Witness ==
  \E i \in Invocations :
    /\ pc[i] = "returned"
    /\ CandidateText(geminiRes[i]) = JsonNull
    /\ response[i].status = 200
    /\ response[i].body = JsonNull

\* The number of logged calls among the kinds of call in S.
RECURSIVE LogTotal(_)
LogTotal(S) ==
  IF S = {} THEN 0
  ELSE LET x == CHOOSE y \in S : TRUE
       IN  log[x] + LogTotal(S \ {x})

\* C15: in every reachable state the count of each client record is the
\* number of calls of isRateLimited with that key made since the record's
\* start (the call that set the start included), denied calls included, so
\* it grows past 20 within a window, and it is at least 1.
C15_CountInvariant ==
  \A k \in DOMAIN rateLimitMap :
    LET e == rateLimitMap[k]
    IN  /\ e.count >= 1
        /\ e.count =
             LogTotal({x \in DOMAIN log : x.ip = k /\ x.at >= e.start})

\* A second window in which the count has passed 21.
C15_Witness ==
  \E k \in DOMAIN rateLimitMap :
    /\ rateLimitMap[k].start > 0
    /\ rateLimitMap[k].count > 21
    /\ \E x \in DOMAIN log : x.ip = k /\ x.limited /\ x.at >= rateLimitMap[k].start

\* The number of admitted calls with key k logged at the times from..to.
AdmittedIn(k, from, to) ==
  LogTotal({x \in DOMAIN log :
              x.ip = k /\ ~x.limited /\ x.at >= from /\ x.at <= to})

\* C17: at most 20 requests per minute per client key: of the calls a client
\* makes inside any interval of 60,000 ms, at most 20 are admitted.
C17_PerMinuteCap ==
  \A x \in DOMAIN log : AdmittedIn(x.ip, x.at, x.at + 59999) <= 20

\* Invocation i calls isRateLimited in this step.
Calls(i) == call'[i].made /\ ~call[i].made

\* The request carries no client address, or an empty one.
Keyless(r) ==
  \/ "CF-Connecting-IP" \notin DOMAIN r.headers
  \/ r.headers["CF-Connecting-IP"] = ""

\* C16: every POST /api/query without a connecting-IP header, or with an
\* empty one, is counted under the one key 'unknown': each such call adds
\* one to that record's count in its window and is admitted only while the
\* count is at most 20, so at most 20 of them together are admitted per
\* window; a request with a connecting-IP value is counted under that value
\* and leaves the record of 'unknown' as it is.
C16_SharedBucket ==
  [][ \A i \in Invocations :
        Calls(i) =>
          LET r == request'[i]
              c == call'[i]
              had == "unknown" \in DOMAIN rateLimitMap
          IN  IF Keyless(r)
              THEN /\ c.ip = "unknown"
                   /\ "unknown" \in DOMAIN rateLimitMap'
                   /\ rateLimitMap'["unknown"].count =
                        (IF had /\ now - rateLimitMap["unknown"].start <= 60000
                         THEN rateLimitMap["unknown"].count + 1 ELSE 1)
                   /\ ~c.limited <=> rateLimitMap'["unknown"].count <= 20
              ELSE /\ c.ip = r.headers["CF-Connecting-IP"]
                   /\ c.ip # "unknown"
                   /\ had <=> "unknown" \in DOMAIN rateLimitMap'
                   /\ had => rateLimitMap'["unknown"] = rateLimitMap["unknown"]
    ]_vars

\* A request with an empty connecting-IP header denied under 'unknown' while
\* the client with an address is below the limit.
C16_Witness ==
  \E i \in Invocations :
    /\ call[i].made /\ call[i].limited /\ call[i].ip = "unknown"
    /\ "CF-Connecting-IP" \in DOMAIN request[i].headers
    /\ request[i].headers["CF-Connecting-IP"] = ""
    /\ SomeIp \in DOMAIN rateLimitMap
    /\ rateLimitMap[SomeIp].count <= 20

\* C19: a client record is reset (count 1 after the increment, start now)
\* exactly by a call that arrives with now - start strictly greater than
\* 60,000 ms; a call at exactly start + 60,000 ms is counted in the old
\* window and denied if the count had reached 20; no other call changes the
\* start, so denied calls do not postpone the next admission.
C19_ResetCondition ==
  [][ /\ \A i \in Invocations :
           (Calls(i) /\ call'[i].ip \in DOMAIN rateLimitMap) =>
             LET old == rateLimitMap[call'[i].ip]
                 new == rateLimitMap'[call'[i].ip]
             IN  IF now - old.start > 60000
                 THEN new = [count |-> 1, start |-> now] /\ ~call'[i].limited
                 ELSE /\ new = [count |-> old.count + 1, start |-> old.start]
                      /\ old.count >= 20 => call'[i].limited
      /\ \A k \in DOMAIN rateLimitMap :
           rateLimitMap'[k].start # rateLimitMap[k].start =>
             /\ now - rateLimitMap[k].start > 60000
             /\ \E i \in Invocations : Calls(i) /\ call'[i].ip = k
    ]_vars

\* A call at exactly start + 60,000 ms, denied in the old window.
C19_Witness ==
  \E i \in Invocations :
    /\ call[i].made /\ ~call[i].fresh
    /\ call[i].at - call[i].before.start = 60000
    /\ call[i].before.count >= 20
    /\ call[i].limited
    /\ call[i].after.start = call[i].before.start

\* C20: a call of the rate limiter for key k reads and writes only the
\* record of k: the record of every other key is unchanged by it, no record
\* disappears, and whether the call is admitted is decided by k's own
\* record and the clock.
C20_Isolation ==
  [][ /\ DOMAIN rateLimitMap \subseteq DOMAIN rateLimitMap'
      /\ \A k \in DOMAIN rateLimitMap' :
           (k \notin DOMAIN rateLimitMap \/ rateLimitMap'[k] # rateLimitMap[k])
             => \E i \in Invocations : Calls(i) /\ call'[i].ip = k
      /\ \A i \in Invocations :
           Calls(i) =>
             LET k == call'[i].ip
                 n == IF /\ k \in DOMAIN rateLimitMap
                         /\ now - rateLimitMap[k].start <= 60000
                      THEN rateLimitMap[k].count + 1 ELSE 1
             IN  /\ call'[i].limited <=> n > 20
                 /\ \A j \in DOMAIN rateLimitMap \ {k} :
                      rateLimitMap'[j] = rateLimitMap[j]
    ]_vars

\* A client admitted while the other client is over the limit.
C20_Witness ==
  \E i \in Invocations :
    /\ call[i].made /\ ~call[i].limited
    /\ \E j \in DOMAIN rateLimitMap :
         j # call[i].ip /\ rateLimitMap[j].count > 20

\* C18: invocations for one client key that interleave at their awaits lose
\* no increment: the limiter's load, window test, increment and store run
\* as one step, so after N calls in one window the count of the record is N
\* and exactly min(N, 20) of the calls were admitted, in every interleaving.
C18_AtomicAdmission ==
  \A k \in DOMAIN rateLimitMap :
    LET N == LogTotal({x \in DOMAIN log : x.ip = k})
        A == LogTotal({x \in DOMAIN log : x.ip = k /\ ~x.limited})
    IN  /\ rateLimitMap[k].count = N
        /\ A = (IF N <= 20 THEN N ELSE 20)
        /\ \A i \in Invocations :
             (call[i].made /\ call[i].ip = k) =>
               /\ call[i].after.count <= N
               /\ call[i].limited <=> call[i].after.count > 20

\* The 20th call was admitted and still waits for the upstream when the
\* 21st, of another invocation, is denied.
C18_Witness ==
  \E i, j \in Invocations :
    /\ i # j
    /\ pc[i] = "fetch" /\ call[i].after.count = 20 /\ ~call[i].limited
    /\ pc[j] = "returned" /\ call[j].after.count = 21 /\ call[j].limited
    /\ response[j].status = 429

=============================================================================
